---- MODULE Spec2Model ----
(***************************************************************************)
(* remindwindows: the file-backed reminder store and its command line      *)
(* front-end (src/src/api.py).  A string is a sequence of one-character    *)
(* strings; the reminder directory REMIND_DIR is a function from the       *)
(* filenames present in it to the content of each file.                    *)
(***************************************************************************)
EXTENDS Integers, Sequences, FiniteSets, TLC

VARIABLES dir, out, app, reminders, events

vars == <<dir, out, app, reminders, events>>

\* the variables of the display process
display == <<app, reminders, events>>

(***************************************************************************)
(* Bounds of the model.                                                    *)
(***************************************************************************)
\* most files the directory holds before 'add' is no longer explored
MaxFiles == 2
\* most reminders added in a row to a directory that started empty
MaxAdds == 3
\* most names already taken (in derivation order) in a pre-populated directory
MaxTaken == 3
\* largest value int() tells apart
MaxInt == 100000
\* most signals of the watcher waiting to be handled
MaxEvents == 3

(***************************************************************************)
(* Characters and the str methods the code uses.                           *)
(***************************************************************************)
LowerLetters ==
  <<"a","b","c","d","e","f","g","h","i","j","k","l","m",
    "n","o","p","q","r","s","t","u","v","w","x","y","z">>

DigitChars == <<"0","1","2","3","4","5","6","7","8","9">>

Range(s) == {s[i] : i \in 1..Len(s)}

Letters == Range(LowerLetters)

Digits == Range(DigitChars)

\* the other characters of the model: '_', punctuation, blank and controls
Others == {"_", "@", "!", "#", " ", ".", "-", "+", "/", "*", "\\", "\r", "\n", "\t"}

Chars == Letters \cup Digits \cup Others

IsLetter(c) == c \in Letters

IsDigitChar(c) == c \in Digits

\* str.isalnum of one character
IsAlnum(c) == IsLetter(c) \/ IsDigitChar(c)

\* the characters of the model that str.isprintable refuses
NonPrintable == {"\r", "\n", "\t"}

\* value of a decimal digit
DigitValue == [c \in Digits |-> (CHOOSE i \in 1..10 : DigitChars[i] = c) - 1]

\* code point of a character (ASCII)
ord ==
  [c \in Chars |->
     IF IsLetter(c) THEN 96 + (CHOOSE i \in 1..26 : LowerLetters[i] = c)
     ELSE IF IsDigitChar(c) THEN 48 + DigitValue[c]
     ELSE CASE c = "\t" -> 9
            [] c = "\n" -> 10
            [] c = "\r" -> 13
            [] c = " " -> 32
            [] c = "!" -> 33
            [] c = "#" -> 35
            [] c = "*" -> 42
            [] c = "+" -> 43
            [] c = "-" -> 45
            [] c = "." -> 46
            [] c = "/" -> 47
            [] c = "@" -> 64
            [] c = "\\" -> 92
            [] c = "_" -> 95]

\* str.isdigit: non-empty and every character a digit
isdigit(s) == Len(s) > 0 /\ \A i \in 1..Len(s) : IsDigitChar(s[i])

\* str.isalnum
isalnum(s) == Len(s) > 0 /\ \A i \in 1..Len(s) : IsAlnum(s[i])

\* str.isprintable: every character printable (true of the empty string)
isprintable(s) == \A i \in 1..Len(s) : s[i] \notin NonPrintable

startswith(s, p) == Len(s) >= Len(p) /\ SubSeq(s, 1, Len(p)) = p

endswith(s, p) == Len(s) >= Len(p) /\ SubSeq(s, Len(s) - Len(p) + 1, Len(s)) = p

\* the slice s[:n]
Slice(s, n) == SubSeq(s, 1, IF n < Len(s) THEN n ELSE Len(s))

\* s < t in Python's order on str: by code point at the first position
\* where they differ, a proper prefix first
RECURSIVE LessFrom(_, _, _)
LessFrom(s, t, i) ==
  IF i > Len(t) THEN FALSE
  ELSE IF i > Len(s) THEN TRUE
  ELSE IF s[i] = t[i] THEN LessFrom(s, t, i + 1)
  ELSE ord[s[i]] < ord[t[i]]

StrLess(s, t) == LessFrom(s, t, 1)

\* sorted(S) for a set of strings
sorted_Descending(S) ==
  [i \in 1..Cardinality(S) |->
     CHOOSE f \in S : Cardinality({g \in S : StrLess(f, g)}) = i - 1]

sorted(S) ==
  [i \in 1..Cardinality(S) |->
     CHOOSE f \in S : Cardinality({g \in S : StrLess(g, f)}) = i - 1]

\* str(n) for a natural number
RECURSIVE str(_)
str(n) == IF n < 10 THEN <<DigitChars[n + 1]>>
          ELSE str(n \div 10) \o <<DigitChars[(n % 10) + 1]>>

\* int(s) for an all-digit string, digit by digit from the left.  Python
\* integers are unbounded: a value above MaxInt is kept as MaxInt, which is
\* beyond every listing.
RECURSIVE IntFrom(_, _, _)
IntFrom(s, i, acc) ==
  IF i > Len(s) THEN acc
  ELSE IF acc >= MaxInt THEN MaxInt
  ELSE IntFrom(s, i + 1, 10 * acc + DigitValue[s[i]])

int(s) == IntFrom(s, 1, 0)

\* str.zfill(width)
RECURSIVE zfill(_, _)
zfill(s, width) == IF Len(s) >= width THEN s ELSE zfill(<<"0">> \o s, width)

(***************************************************************************)
(* The reminder texts and filenames the commands are tried with.           *)
(***************************************************************************)
T_reminder == <<"r","e","m","i","n","d","e","r">>
T_another == <<"a","n","o","t","h","e","r"," ","t","h","i","n","g"," ","2">>
T_under == <<"a","_","b">>
T_symbols == <<"@","@">>
T_digits == <<"1","2">>
T_symdigit == <<"@","9">>
T_empty == <<>>
T_control == <<"a","\r","b">>
T_hashdigits == <<"3","8","5">>
T_hashsymbols == <<"#","@">>

Texts == {T_reminder, T_another, T_under, T_symbols, T_digits, T_symdigit,
          T_empty, T_control, T_hashdigits, T_hashsymbols}

(***************************************************************************)
(* text_to_fpath                                                           *)
(***************************************************************************)
EXTENSION == <<".","r","e","m">>
MAX_LEN == 10
WIDTH == 3

\* hashlib.sha1(text.encode("utf8", 'replace')).hexdigest()
sha1_hexdigest(text) ==
  CASE text = T_symbols ->
         <<"a","7","c","1","3","e","6","f","e","6","0","e","e","e","0","8","b","9","a","a",
           "c","0","0","a","0","9","5","a","9","3","0","1","e","a","1","a","9","8","2","4">>
    [] text = T_digits ->
         <<"7","b","5","2","0","0","9","b","6","4","f","d","0","a","2","a","4","9","e","6",
           "d","8","a","9","3","9","7","5","3","0","7","7","7","9","2","b","0","5","5","4">>
    [] text = T_symdigit ->
         <<"7","6","6","6","2","8","2","1","1","0","d","1","e","a","a","7","9","5","c","3",
           "0","e","6","f","9","a","e","a","2","f","f","e","5","0","a","a","0","c","5","d">>
    [] text = T_hashdigits ->
         <<"8","5","5","6","7","9","7","3","0","9","7","0","f","8","a","0","f","c","a","7",
           "1","7","e","8","2","e","7","6","c","c","9","3","0","5","3","c","0","9","c","1">>
    [] text = T_hashsymbols ->
         <<"9","6","4","0","9","2","5","2","5","5","5","f","3","2","d","9","b","2","a","3",
           "5","3","b","2","a","9","b","f","2","5","a","6","a","b","8","0","7","4","3","0">>

\* Path.exists for a file of the reminder directory
exists(fname, d) == fname \in DOMAIN d

\* Shortened without the fallback for an empty or all-digit result
Shortened_NoFallback(text) == Slice(SelectSeq(text, IsAlnum), MAX_LEN)

\* pattern.sub("", text) followed by [:MAX_LEN], then the fallback
Shortened(text) ==
  LET alphanum == SelectSeq(text, IsAlnum)
      shortened == Slice(alphanum, MAX_LEN)
  IN IF Len(shortened) < 1 \/ isdigit(shortened)
     THEN IF Len(text) > 0 THEN Slice(sha1_hexdigest(text), MAX_LEN)
          ELSE <<"n","o","n","a","m","e">>
     ELSE shortened

\* Numbered with the counter incremented before it is used
Numbered_FromOne(shortened, num_rems) ==
  Slice(shortened, MAX_LEN - WIDTH) \o zfill(str(num_rems + 1), WIDTH) \o EXTENSION

\* the name the collision loop forms with counter value num_rems
Numbered(shortened, num_rems) ==
  Slice(shortened, MAX_LEN - WIDTH) \o zfill(str(num_rems), WIDTH) \o EXTENSION

\* text_to_fpath without the collision loop
text_to_fpath_NoLoop(text, d) == Shortened(text) \o EXTENSION

\* The while loop leaves with the first counter whose name is unused; it
\* passes at most one file of the directory per iteration.
text_to_fpath(text, d) ==
  LET shortened == Shortened(text)
      fname == shortened \o EXTENSION
  IN IF ~exists(fname, d) THEN fname
     ELSE LET n == CHOOSE k \in 0..Cardinality(DOMAIN d) :
                      /\ ~exists(Numbered(shortened, k), d)
                      /\ \A m \in 0..(k-1) : exists(Numbered(shortened, m), d)
          IN Numbered(shortened, n)

\* basename of a filename that ends with the extension
Basename(fname) == SubSeq(fname, 1, Len(fname) - Len(EXTENSION))

(***************************************************************************)
(* Files                                                                   *)
(***************************************************************************)
\* reminder_file.write(text) in text mode: '\n' becomes os.linesep ('\n')
FileWrite(text) == text

\* remind_file.read() in text mode: universal newlines, '\r\n' and '\r'
\* are read back as '\n'
RECURSIVE FileRead(_)
FileRead(content) ==
  IF Len(content) = 0 THEN <<>>
  ELSE IF content[1] = "\r"
       THEN IF Len(content) > 1 /\ content[2] = "\n"
            THEN <<"\n">> \o FileRead(SubSeq(content, 3, Len(content)))
            ELSE <<"\n">> \o FileRead(Tail(content))
       ELSE <<content[1]>> \o FileRead(Tail(content))

\* add_reminder: touch, then open('w') and write
add_reminder(text, fpath, d) ==
  [f \in DOMAIN d \cup {fpath} |-> IF f = fpath THEN FileWrite(text) ELSE d[f]]

\* Path.unlink of a file that exists
unlink(fpath, d) == [f \in DOMAIN d \ {fpath} |-> d[f]]

\* get_reminder
get_reminder(path, d) == FileRead(d[path])

\* get_reminder_filenames
get_reminder_filenames(d) == sorted({f \in DOMAIN d : endswith(f, EXTENSION)})

(***************************************************************************)
(* The result of the last command: what was asked (the -n value, the       *)
(* reminder text, -f and the answers at the prompts), the paths the        *)
(* arguments were resolved to, the error raised and what was printed.      *)
(***************************************************************************)
NoOut == [cmd |-> "none", err |-> "", name |-> <<>>, text |-> <<>>,
          refs |-> <<>>, paths |-> <<>>, force |-> FALSE, answers |-> <<>>,
          stdout |-> <<>>, table |-> <<>>, msg |-> "", signals |-> <<>>]

\* the directory after k names were taken for text, in derivation order
RECURSIVE Occupied(_, _)
Occupied(text, k) ==
  IF k = 0 THEN <<>>
  ELSE LET d == Occupied(text, k - 1)
       IN add_reminder(text, text_to_fpath(text, d), d)

\* every name the 3-digit counter can form for text is taken, and the
\* unsuffixed name too
Exhausted(text) ==
  LET shortened == Shortened(text)
      names == {shortened \o EXTENSION} \cup
               {Numbered(shortened, k) : k \in 0..(10^WIDTH - 1)}
  IN [f \in names |-> FileWrite(text)]

(***************************************************************************)
(* text_to_fpath called on its own (test_fpath_alphanum, test_ext,         *)
(* test_len, test_set_alphanum)                                            *)
(***************************************************************************)
InitDerive ==
  /\ dir \in {Occupied(t, k) : t \in Texts, k \in 0..MaxTaken}
               \cup {Exhausted(T_reminder), Exhausted(T_under)}
  /\ out = NoOut
  /\ app = "off"
  /\ reminders = <<>>
  /\ events = <<>>

Derive(text) ==
  /\ UNCHANGED display
  /\ out' = [NoOut EXCEPT !.cmd = "derive", !.text = text,
                          !.paths = <<text_to_fpath(text, dir)>>]
  /\ UNCHANGED dir

NextDerive == \E text \in Texts : Derive(text)

SpecDerive == InitDerive /\ [][NextDerive]_vars

(***************************************************************************)
(* Argument validation (the argparse type functions)                       *)
(***************************************************************************)
N_a == <<"a">>
N_arem == <<"a",".","r","e","m">>
N_digitrem == <<"1",".","r","e","m">>
N_alldigits == <<"1","2">>
N_empty == <<>>
N_dash == <<"-","a">>
N_plus == <<"+","a">>
N_dot == <<".","a">>
N_slash == <<"a","/","b">>
N_star == <<"a","*","b">>
N_backslash == <<"a","\\","b">>
N_control == <<"a","\t">>

\* the values tried for -n / --filename
Names == {N_a, N_arem, N_digitrem, N_alldigits, N_empty,
          N_dash, N_plus, N_dot, N_slash, N_star, N_backslash, N_control}

\* the texts tried as the reminder argument of 'add'
AddTexts == {T_reminder, T_symdigit, T_empty, T_control}

\* the answers tried at the "Delete ...? (Y/n): " prompt
Responses == {"y", "Y", "", "n"}

Ok(path) == [err |-> "", path |-> path]

Error(msg) == [err |-> msg, path |-> <<>>]

\* reminder_string without the isprintable test
reminder_string_NoPrintable(s) ==
  IF s = <<>> THEN "Reminder cannot be empty." ELSE ""

\* reminder_string; "" when the text is accepted
reminder_string(s) ==
  IF s = <<>> THEN "Reminder cannot be empty."
  ELSE IF ~isprintable(s) THEN "Reminder must be printable."
  ELSE ""

\* resolve_reminder taking the index as one-based
resolve_reminder_OneBased(file, d) ==
  IF \E c \in {"/", "\\", "*"} : c \in Range(file)
    THEN Error("Filename cannot contain character")
  ELSE IF \E c \in {"-", "+", "."} : startswith(file, <<c>>)
    THEN Error("Filename cannot begin with  character")
  ELSE IF file = <<>> THEN Error("Filename cannot be empty.")
  ELSE IF ~isprintable(file) THEN Error("Filename must be printable.")
  ELSE IF endswith(file, EXTENSION) THEN Ok(file)
  ELSE IF isdigit(file)
    THEN LET names == get_reminder_filenames(d)
         IN IF int(file) \in DOMAIN names THEN Ok(names[int(file)])
            ELSE Error("List index out of range")
  ELSE Ok(file \o EXTENSION)

\* resolve_reminder; the messages are the fixed part of the formatted ones
resolve_reminder(file, d) ==
  IF \E c \in {"/", "\\", "*"} : c \in Range(file)
    THEN Error("Filename cannot contain character")
  ELSE IF \E c \in {"-", "+", "."} : startswith(file, <<c>>)
    THEN Error("Filename cannot begin with  character")
  ELSE IF file = <<>> THEN Error("Filename cannot be empty.")
  ELSE IF ~isprintable(file) THEN Error("Filename must be printable.")
  ELSE IF endswith(file, EXTENSION) THEN Ok(file)
  ELSE IF isdigit(file)
    THEN LET names == get_reminder_filenames(d)
         IN IF int(file) + 1 \in DOMAIN names THEN Ok(names[int(file) + 1])
            ELSE Error("List index out of range")
  ELSE Ok(file \o EXTENSION)

\* is_reminder
is_reminder(file, d) ==
  LET r == resolve_reminder(file, d)
  IN IF r.err # "" THEN r
     ELSE IF ~exists(r.path, d) THEN Error("is not a reminder file.")
     ELSE r

\* not_reminder without the test that the file exists
not_reminder_NoExists(file, d) ==
  IF isdigit(file) THEN Error("Cannot name reminder only digits.")
  ELSE resolve_reminder(file, d)

\* not_reminder
not_reminder(file, d) ==
  IF isdigit(file) THEN Error("Cannot name reminder only digits.")
  ELSE LET r == resolve_reminder(file, d)
       IN IF r.err # "" THEN r
          ELSE IF exists(r.path, d) THEN Error("is already a reminder file.")
          ELSE r

\* list_reminders: the rows handed to tabulate, index beside filename
list_reminders(d) ==
  LET files == get_reminder_filenames(d)
  IN [i \in 1..Len(files) |-> <<i - 1, files[i]>>]

\* delete_reminders taking every answer as a confirmation
RECURSIVE delete_reminders_AnyAnswer(_, _, _, _, _)
delete_reminders_AnyAnswer(files, force, answers, i, d) ==
  IF i > Len(files) THEN [dir |-> d, err |-> ""]
  ELSE IF exists(files[i], d)
       THEN delete_reminders_AnyAnswer(files, force, answers, i + 1, unlink(files[i], d))
       ELSE [dir |-> d, err |-> "FileNotFoundError"]

\* the loops of delete_reminders from position i on; unlink of a file that
\* is gone raises FileNotFoundError and ends the command
RECURSIVE delete_reminders(_, _, _, _, _)
delete_reminders(files, force, answers, i, d) ==
  IF i > Len(files) THEN [dir |-> d, err |-> ""]
  ELSE IF force \/ answers[i] \in {"y", "Y", ""}
       THEN IF exists(files[i], d)
            THEN delete_reminders(files, force, answers, i + 1, unlink(files[i], d))
            ELSE [dir |-> d, err |-> "FileNotFoundError"]
       ELSE delete_reminders(files, force, answers, i + 1, d)

(***************************************************************************)
(* The commands (parse_args followed by run_args)                          *)
(***************************************************************************)
Rejected(cmd, msg) == [NoOut EXCEPT !.cmd = cmd, !.err = msg]

\* the references tried for show and edit: every position up to the first
\* one that is always out of range, names that are refused, and each file
\* by its filename and by its filename without the extension
Indices == {str(i) : i \in 0..MaxFiles}

Refs(d) == Indices \cup {N_a, N_empty, N_dash, N_slash, N_control}
             \cup DOMAIN d \cup {Basename(f) : f \in DOMAIN d}

\* the references tried for delete
DeleteRefs(d) == Indices \cup {N_a} \cup DOMAIN d \cup {Basename(f) : f \in DOMAIN d}

\* the argument lists tried for delete (nargs='*'): none, one reference,
\* and two filenames, the same one twice included
RefLists(d) ==
  {<<>>} \cup {<<ref>> : ref \in DeleteRefs(d)}
         \cup {<<p[1], p[2]>> : p \in {q \in (DOMAIN d) \X (DOMAIN d) :
                                          q[1] = q[2] \/ StrLess(q[1], q[2])}}

\* the answers typed at the prompts of one delete: a single prompt gets each
\* response, each of two prompts gets 'y' or 'n'
Answers(n) == IF n <= 1 THEN [1..n -> Responses] ELSE [1..n -> {"y", "n"}]

\* the display process is not started
DisplayOff ==
  /\ app = "off"
  /\ reminders = <<>>
  /\ events = <<>>

Init ==
  /\ dir = <<>>
  /\ out = NoOut
  /\ DisplayOff

\* add <text>: DefaultName derives the filename while the arguments are
\* parsed, run_args writes the file
RunAdd(text) ==
  /\ UNCHANGED display
  /\ \E e \in {reminder_string(text)} :
       IF e # ""
       THEN /\ out' = Rejected("add", e)
            /\ UNCHANGED dir
       ELSE \E fpath \in {text_to_fpath(text, dir)} :
              /\ dir' = add_reminder(text, fpath, dir)
              /\ out' = [NoOut EXCEPT !.cmd = "add", !.text = text, !.paths = <<fpath>>]

Add(text) ==
  /\ Cardinality(DOMAIN dir) < MaxFiles
  /\ RunAdd(text)

\* add -n <file> <text>
AddNamed(file, text) ==
  /\ UNCHANGED display
  /\ Cardinality(DOMAIN dir) < MaxFiles
  /\ \E r \in {not_reminder(file, dir)}, e \in {reminder_string(text)} :
       IF r.err # ""
       THEN /\ out' = [Rejected("add -n", r.err) EXCEPT !.name = file]
            /\ UNCHANGED dir
       ELSE IF e # ""
       THEN /\ out' = [Rejected("add -n", e) EXCEPT !.name = file]
            /\ UNCHANGED dir
       ELSE /\ dir' = add_reminder(text, r.path, dir)
            /\ out' = [NoOut EXCEPT !.cmd = "add -n", !.name = file, !.text = text,
                                    !.paths = <<r.path>>]

\* list: only the table is printed
List ==
  /\ UNCHANGED display
  /\ out' = [NoOut EXCEPT !.cmd = "list", !.table = list_reminders(dir)]
  /\ UNCHANGED dir

\* show <file>
Show(file) ==
  /\ UNCHANGED display
  /\ \E r \in {is_reminder(file, dir)} :
       IF r.err # ""
       THEN out' = [Rejected("show", r.err) EXCEPT !.refs = <<file>>]
       ELSE out' = [NoOut EXCEPT !.cmd = "show", !.refs = <<file>>, !.paths = <<r.path>>,
                                 !.stdout = get_reminder(r.path, dir)]
  /\ UNCHANGED dir

\* edit <file>: the editor is started on the file
Edit(file) ==
  /\ UNCHANGED display
  /\ \E r \in {is_reminder(file, dir)} :
       IF r.err # ""
       THEN out' = [Rejected("edit", r.err) EXCEPT !.refs = <<file>>]
       ELSE out' = [NoOut EXCEPT !.cmd = "edit", !.refs = <<file>>, !.paths = <<r.path>>]
  /\ UNCHANGED dir

\* delete [-f] <files...>, with the answers given at the prompts
Delete(files, force, answers) ==
  /\ UNCHANGED display
  /\ \E rs \in {[i \in 1..Len(files) |-> is_reminder(files[i], dir)]} :
       LET bad == {i \in 1..Len(files) : rs[i].err # ""}
           paths == [i \in 1..Len(files) |-> rs[i].path]
       IN IF bad # {}
          THEN /\ out' = [Rejected("delete", rs[CHOOSE i \in bad : \A j \in bad : i <= j].err)
                          EXCEPT !.refs = files]
               /\ UNCHANGED dir
          ELSE \E res \in {delete_reminders(paths, force, answers, 1, dir)} :
                 /\ dir' = res.dir
                 /\ out' = [NoOut EXCEPT !.cmd = "delete", !.err = res.err, !.refs = files,
                                         !.paths = paths, !.force = force,
                                         !.answers = answers]

\* the prompts are reached only when every reference was accepted and
\* -f was not given
Prompted(files, force) ==
  ~force /\ \A i \in 1..Len(files) : is_reminder(files[i], dir).err = ""

Next ==
  \/ \E text \in AddTexts : Add(text)
  \/ \E file \in Names, text \in AddTexts : AddNamed(file, text)
  \/ List
  \/ \E file \in Refs(dir) : Show(file)
  \/ \E file \in Refs(dir) : Edit(file)
  \/ \E files \in RefLists(dir), force \in BOOLEAN :
        IF Prompted(files, force)
        THEN \E answers \in Answers(Len(files)) : Delete(files, force, answers)
        ELSE Delete(files, force, [i \in 1..Len(files) |-> ""])

Spec == Init /\ [][Next]_vars

(***************************************************************************)
(* Reminders added one after the other to a directory that starts empty    *)
(* (test_add_number_to_end, test_list_reminder_names)                      *)
(***************************************************************************)
AddAgain(text) ==
  /\ Cardinality(DOMAIN dir) < MaxAdds
  /\ RunAdd(text)

NextAdd ==
  \/ \E text \in Texts : AddAgain(text)
  \/ List

SpecAdd == Init /\ [][NextAdd]_vars

(***************************************************************************)
(* The display process (src/remindwindows/remindme.py): RemindApplication  *)
(* starts the directory watcher, scans the directory once and then handles *)
(* the watcher's created and deleted signals one at a time, in the order   *)
(* they were emitted.  reminders is the list of active Reminder records,   *)
(* events the signals emitted and not yet handled.  launch() of a record   *)
(* is the signal "appeared", close() the signal "removed".                 *)
(***************************************************************************)
F_a == <<"a",".","r","e","m">>
F_b == <<"b",".","r","e","m">>
F_swap == <<"a",".","s","w","p">>

DisplayFiles == {F_a, F_b, F_swap}

DisplayTexts == {T_reminder, T_under}

\* Reminder.__init__: the record of a file, or the error of path.open()
Reminder(path, d) ==
  IF exists(path, d)
  THEN [err |-> "", rec |-> [path |-> path, text |-> FileRead(d[path])]]
  ELSE [err |-> "FileNotFoundError", rec |-> [path |-> path, text |-> <<>>]]

\* the orders in which iterdir can yield the files of the directory
iterdir(d) ==
  {l \in [1..Cardinality(DOMAIN d) -> DOMAIN d] :
     \A i, j \in 1..Cardinality(DOMAIN d) : i # j => l[i] # l[j]}

\* get_current_reminders, for one order of iterdir
get_current_reminders(listing, d) ==
  LET rems == SelectSeq(listing, LAMBDA r : endswith(r, EXTENSION))
  IN [i \in 1..Len(rems) |-> Reminder(rems[i], d).rec]

\* RemindHandler.on_created and on_deleted: the signal is emitted for
\* '.rem' paths only
on_created(src_path, q) ==
  IF endswith(src_path, EXTENSION) THEN Append(q, <<"created", src_path>>) ELSE q

on_deleted(src_path, q) ==
  IF endswith(src_path, EXTENSION) THEN Append(q, <<"deleted", src_path>>) ELSE q

\* is_existing_reminder: the position of the first record with this path,
\* 0 for the value False
is_existing_reminder(path, rs) ==
  IF \E i \in 1..Len(rs) : rs[i].path = path
  THEN CHOOSE i \in 1..Len(rs) :
         /\ rs[i].path = path
         /\ \A j \in 1..(i - 1) : rs[j].path # path
  ELSE 0

\* list.remove of the record at position i
remove(rs, i) == SubSeq(rs, 1, i - 1) \o SubSeq(rs, i + 1, Len(rs))

Handled(rs, err, signals) == [reminders |-> rs, err |-> err, signals |-> signals]

\* file_created that appends without retiring the record it found
file_created_NoRetire(src_path, rs, d) ==
  LET new == Reminder(src_path, d)
  IN IF new.err # "" THEN Handled(rs, new.err, <<>>)
     ELSE Handled(Append(rs, new.rec), "", <<"appeared">>)

\* file_created
file_created(src_path, rs, d) ==
  LET reminder == is_existing_reminder(src_path, rs)
      new == Reminder(src_path, d)
  IN IF reminder = 0
     THEN IF new.err # "" THEN Handled(rs, new.err, <<>>)
          ELSE Handled(Append(rs, new.rec), "", <<"appeared">>)
     ELSE IF new.err # "" THEN Handled(remove(rs, reminder), new.err, <<"removed">>)
          ELSE Handled(Append(remove(rs, reminder), new.rec), "",
                       <<"removed", "appeared">>)

\* file_deleted that closes the window and keeps the record
file_deleted_KeepRecord(src_path, rs) ==
  LET reminder == is_existing_reminder(src_path, rs)
  IN IF reminder = 0 THEN Handled(rs, "AttributeError", <<>>)
     ELSE Handled(rs, "", <<"removed">>)

\* file_deleted: close() is called on whatever is_existing_reminder
\* returned, and False has no close()
file_deleted(src_path, rs) ==
  LET reminder == is_existing_reminder(src_path, rs)
  IN IF reminder = 0 THEN Handled(rs, "AttributeError", <<>>)
     ELSE Handled(remove(rs, reminder), "", <<"removed">>)

\* the watcher runs from the start of RemindApplication.__init__ until the
\* process ends
Watching == app \in {"watching", "running"}

InitDisplay ==
  /\ dir = <<>>
  /\ out = NoOut
  /\ DisplayOff

\* a reminder file is created and written (add_reminder of the command line)
ReminderAdded(f, text) ==
  /\ ~exists(f, dir)
  /\ Len(events) < MaxEvents
  /\ dir' = add_reminder(text, f, dir)
  /\ events' = IF Watching THEN on_created(f, events) ELSE events
  /\ out' = [NoOut EXCEPT !.cmd = "touch", !.paths = <<f>>]
  /\ UNCHANGED <<app, reminders>>

\* an editor saves a reminder by putting a new file in the place of the old
\* one (edit_reminder of the command line): the watcher reports it created
ReminderReplaced(f, text) ==
  /\ exists(f, dir)
  /\ dir[f] # FileWrite(text)
  /\ Len(events) < MaxEvents
  /\ dir' = add_reminder(text, f, dir)
  /\ events' = IF Watching THEN on_created(f, events) ELSE events
  /\ out' = [NoOut EXCEPT !.cmd = "replace", !.paths = <<f>>]
  /\ UNCHANGED <<app, reminders>>

\* a reminder file is unlinked (delete_reminders of the command line)
ReminderDeleted(f) ==
  /\ exists(f, dir)
  /\ Len(events) < MaxEvents
  /\ dir' = unlink(f, dir)
  /\ events' = IF Watching THEN on_deleted(f, events) ELSE events
  /\ out' = [NoOut EXCEPT !.cmd = "unlink", !.paths = <<f>>]
  /\ UNCHANGED <<app, reminders>>

\* RemindApplication.__init__, first half: the watcher is started and its
\* signals are connected
StartWatcher ==
  /\ app = "off"
  /\ app' = "watching"
  /\ out' = [NoOut EXCEPT !.cmd = "watch"]
  /\ UNCHANGED <<dir, reminders, events>>

\* RemindApplication.__init__, second half: the directory is scanned
Scan ==
  /\ app = "watching"
  /\ \E listing \in iterdir(dir) : reminders' = get_current_reminders(listing, dir)
  /\ app' = "running"
  /\ out' = [NoOut EXCEPT !.cmd = "scan"]
  /\ UNCHANGED <<dir, events>>

\* the event loop delivers the oldest signal to its slot.  An exception
\* that leaves a slot either ends the process (PyQt5 from 5.5 on aborts) or
\* is printed and the loop goes on (older PyQt5, or an excepthook).
HandleEvent(survives) ==
  /\ app = "running"
  /\ events # <<>>
  /\ \E res \in {IF Head(events)[1] = "created"
                 THEN file_created(Head(events)[2], reminders, dir)
                 ELSE file_deleted(Head(events)[2], reminders)} :
       /\ reminders' = res.reminders
       /\ app' = IF res.err = "" \/ survives THEN "running" ELSE "crashed"
       /\ out' = [NoOut EXCEPT !.cmd = "file_" \o Head(events)[1],
                               !.paths = <<Head(events)[2]>>,
                               !.err = res.err, !.signals = res.signals]
  /\ events' = Tail(events)
  /\ UNCHANGED dir

NextDisplay ==
  \/ \E f \in DisplayFiles, text \in DisplayTexts : ReminderAdded(f, text)
  \/ \E f \in DisplayFiles, text \in DisplayTexts : ReminderReplaced(f, text)
  \/ \E f \in DisplayFiles : ReminderDeleted(f)
  \/ StartWatcher
  \/ Scan
  \/ \E survives \in BOOLEAN : HandleEvent(survives)

SpecDisplay == InitDisplay /\ [][NextDisplay]_vars

(***************************************************************************)
(* Properties                                                              *)
(***************************************************************************)
\* the last command was accepted with this name
Did(cmd) == out.cmd = cmd /\ out.err = ""

\* C1: for every text and every directory contents, the filename that
\* text_to_fpath returns is a non-empty basename of letters and digits only,
\* followed by the extension '.rem'.
C1_BasenameAlphanumeric ==
  out.cmd = "derive" =>
     /\ endswith(out.paths[1], EXTENSION)
     /\ isalnum(Basename(out.paths[1]))

\* a text of symbols only, derived while its hash name is already taken
C1_Witness ==
  /\ out.cmd = "derive"
  /\ out.text = T_symbols
  /\ exists(Slice(sha1_hexdigest(T_symbols), MAX_LEN) \o EXTENSION, dir)
  /\ out.paths[1] \notin DOMAIN dir

\* C2: for every text and every directory contents, the basename returned
\* by text_to_fpath has at most MAX_LEN characters, whatever value the
\* collision counter has reached.
C2_BasenameAtMostMaxLen ==
  out.cmd = "derive" => Len(Basename(out.paths[1])) <= MAX_LEN

\* C3: text_to_fpath never returns the name of a file that exists, and an
\* 'add' that derives its name creates one new file, makes the directory one
\* file larger and changes no file that was there before.
C3_AddCreatesOneNewFile ==
  [][ /\ \A t \in AddTexts : ~exists(text_to_fpath(t, dir), dir)
      /\ (out'.cmd = "add" /\ out'.err = "") =>
            /\ out'.paths[1] \notin DOMAIN dir
            /\ DOMAIN dir' = DOMAIN dir \cup {out'.paths[1]}
            /\ Cardinality(DOMAIN dir') = Cardinality(DOMAIN dir) + 1
            /\ \A f \in DOMAIN dir : dir'[f] = dir[f] ]_vars

\* an add whose unsuffixed name was taken by an earlier add of the same text
C3_Witness ==
  /\ Did("add")
  /\ out.text = T_reminder
  /\ out.paths[1] # T_reminder \o EXTENSION
  /\ exists(T_reminder \o EXTENSION, dir)
  /\ exists(out.paths[1], dir)

\* the three directories of C4 for a text whose unsuffixed base is base
Suffixed(base, digits) == Slice(base, MAX_LEN - 3) \o digits \o EXTENSION

AfterOne(base, text) == [f \in {base \o EXTENSION} |-> text]

AfterTwo(base, text) ==
  [f \in {base \o EXTENSION, Suffixed(base, <<"0","0","0">>)} |-> text]

AfterThree(base, text) ==
  [f \in {base \o EXTENSION, Suffixed(base, <<"0","0","0">>),
          Suffixed(base, <<"0","0","1">>)} |-> text]

C5_RoundTrip ==
  (out.cmd \in {"add", "add -n"} /\ out.err = "") =>
     /\ exists(out.paths[1], dir)
     /\ dir[out.paths[1]] = out.text
     /\ get_reminder(out.paths[1], dir) = out.text

\* a text of a symbol and a digit, stored under its hash name and read back
C5_Witness ==
  /\ Did("add")
  /\ out.text = T_symdigit
  /\ get_reminder(out.paths[1], dir) = T_symdigit

\* position of a file in the sorted listing, zero-based
IndexOf(fname, d) ==
  (CHOOSE i \in 1..Cardinality(DOMAIN d) : get_reminder_filenames(d)[i] = fname) - 1

\* C6: a reminder created by 'add -n NAME' is addressed by its zero-based
\* position in the sorted listing, by its full filename and by its filename
\* without '.rem' alike: each resolves to that file and shows its text.
C6_ThreeWaysToAddress ==
  Did("add -n") =>
     \A ref \in {str(IndexOf(out.paths[1], dir)), out.paths[1], Basename(out.paths[1])} :
        /\ is_reminder(ref, dir) = Ok(out.paths[1])
        /\ get_reminder(out.paths[1], dir) = out.text

\* C7: for show, delete and edit, an all-digit reference at or beyond the
\* number of reminder files is rejected with 'List index out of range' and
\* the directory is left unchanged; an index below it is accepted and names
\* the file at that position of the sorted listing.
C7_IndexOutOfRange ==
  [][ (/\ out'.cmd \in {"show", "delete", "edit"}
       /\ Len(out'.refs) = 1
       /\ isdigit(out'.refs[1])) =>
         IF int(out'.refs[1]) >= Cardinality(DOMAIN dir)
         THEN /\ out'.err = "List index out of range"
              /\ dir' = dir
         ELSE /\ out'.err = ""
              /\ out'.paths[1] \in DOMAIN dir
              /\ Cardinality({f \in DOMAIN dir : StrLess(f, out'.paths[1])})
                    = int(out'.refs[1]) ]_vars

\* show was refused an index although the directory holds a reminder
C7_Witness ==
  /\ out.cmd = "show"
  /\ out.refs = <<str(1)>>
  /\ out.err = "List index out of range"
  /\ Cardinality(DOMAIN dir) = 1

\* what the documentation of -n asks of a name
ValidName(name) ==
  /\ name # <<>>
  /\ isprintable(name)
  /\ ~isdigit(name)
  /\ \A i \in 1..Len(name) : name[i] \notin {"/", "\\", "*"}
  /\ name[1] \notin {"-", "+", "."}

\* the file a valid name stands for
Target(name) == IF endswith(name, EXTENSION) THEN name ELSE name \o EXTENSION

\* C8: 'add -n NAME <text>' (with a text that is accepted) is accepted
\* exactly when NAME is valid and the file it resolves to does not exist;
\* otherwise it is rejected with an error ('already a reminder' when the
\* name is taken), no file is created and no content changes.
C8_AddNamedAcceptedIffValid ==
  [][ (out'.cmd = "add -n" /\ out'.err # "Reminder cannot be empty."
                           /\ out'.err # "Reminder must be printable.") =>
        IF ValidName(out'.name) /\ ~exists(Target(out'.name), dir)
        THEN /\ out'.err = ""
             /\ dir' = add_reminder(out'.text, Target(out'.name), dir)
        ELSE /\ out'.err # ""
             /\ dir' = dir
             /\ ValidName(out'.name) => out'.err = "is already a reminder file." ]_vars

\* a valid name was refused because its file was there already
C8_Witness ==
  /\ out.cmd = "add -n"
  /\ out.name = N_a
  /\ out.err = "is already a reminder file."
  /\ exists(N_arem, dir)

\* the file a reference to an existing reminder stands for
Referred(ref, d) ==
  IF endswith(ref, EXTENSION) THEN ref
  ELSE IF isdigit(ref) THEN get_reminder_filenames(d)[int(ref) + 1]
  ELSE ref \o EXTENSION

\* C9: a delete that is forced, or confirmed with '', 'y' or 'Y', removes
\* exactly the files its references resolved to: the listing is shorter by
\* as many entries and every other file is unchanged.  Any other answer
\* skips the file: no error, and the file stays.
C9_DeleteRemovesExactly ==
  [][ (out'.cmd = "delete" /\ out'.err \in {"", "FileNotFoundError"}) =>
        LET n == Len(out'.refs)
            confirmed == {i \in 1..n : out'.force \/ out'.answers[i] \in {"y", "Y", ""}}
            removed == {out'.paths[i] : i \in confirmed}
        IN /\ n = 1 => out'.paths[1] = Referred(out'.refs[1], dir)
           /\ removed \subseteq DOMAIN dir
           /\ DOMAIN dir' = DOMAIN dir \ removed
           /\ \A f \in DOMAIN dir' : dir'[f] = dir[f]
           /\ n = 1 /\ confirmed # {} =>
                 Len(list_reminders(dir')) = Len(list_reminders(dir)) - 1
           /\ confirmed = {} => out'.err = "" /\ dir' = dir ]_vars

\* a delete by position answered 'Y' removed the file
C9_Witness ==
  /\ Did("delete")
  /\ Len(out.refs) = 1
  /\ isdigit(out.refs[1])
  /\ out.answers[1] = "Y"
  /\ ~exists(out.paths[1], dir)
  /\ dir # <<>>

\* C10: whenever the directory holds no '.rem' file, 'list' prints the
\* message 'No reminders found'.
C10_ListNoReminders ==
  (out.cmd = "list" /\ {f \in DOMAIN dir : endswith(f, EXTENSION)} = {}) =>
     out.msg = "No reminders found"

\* C11: 'list' pairs every reminder filename with its zero-based rank in
\* the ascending order of filenames, whatever order the files were added in,
\* and a list that follows a list with nothing added or deleted in between
\* prints the same table.
C11_ListSortedAndStable ==
  [][ out'.cmd = "list" =>
        LET t == out'.table
            names == {f \in DOMAIN dir : endswith(f, EXTENSION)}
        IN /\ dir' = dir
           /\ Len(t) = Cardinality(names)
           /\ {t[i][2] : i \in 1..Len(t)} = names
           /\ \A i \in 1..Len(t) : t[i][1] = i - 1
           /\ \A i, j \in 1..Len(t) : i < j => StrLess(t[i][2], t[j][2])
           /\ out.cmd = "list" => out'.table = out.table ]_vars

\* 'reminder', 'a_b' and 'another thing 2' were added and are listed as
\* 0 ab.rem, 1 anotherthi.rem, 2 reminder.rem
C11_Witness ==
  /\ out.cmd = "list"
  /\ out.table = << <<0, <<"a","b",".","r","e","m">> >>,
                    <<1, <<"a","n","o","t","h","e","r","t","h","i",".","r","e","m">> >>,
                    <<2, <<"r","e","m","i","n","d","e","r",".","r","e","m">> >> >>
  /\ \A f \in DOMAIN dir : get_reminder(f, dir) \in {T_reminder, T_under, T_another}

\* C12: for a text made up only of non-alphanumeric characters or only of
\* digits, and whatever the directory holds, the basename returned by
\* text_to_fpath is not empty and is not made up only of digits.
C12_BasenameNeverIndex ==
  (/\ out.cmd = "derive"
   /\ \/ \A i \in 1..Len(out.text) : ~IsAlnum(out.text[i])
      \/ isdigit(out.text)) =>
     /\ Basename(out.paths[1]) # <<>>
     /\ ~isdigit(Basename(out.paths[1]))

\* the alphanumeric characters of a string
AlnumSet(s) == {c \in Range(s) : IsAlnum(c)}

\* C13: for a text with at least two distinct alphanumeric characters whose
\* derived name comes neither from the hash fallback nor from the collision
\* loop, the alphanumeric characters of the returned basename are exactly
\* the alphanumeric characters of the text.
C13_AlnumSetPreserved ==
  (/\ out.cmd = "derive"
   /\ Cardinality(AlnumSet(out.text)) >= 2
   /\ ~isdigit(Slice(SelectSeq(out.text, IsAlnum), MAX_LEN))
   /\ out.paths[1] = Shortened(out.text) \o EXTENSION) =>
     AlnumSet(Basename(out.paths[1])) = AlnumSet(out.text)

\* the paths of the active reminder list
ActivePaths(rs) == {rs[i].path : i \in 1..Len(rs)}

\* the '.rem' files of the directory
RemFiles(d) == {f \in DOMAIN d : endswith(f, EXTENSION)}

\* C14: a Deleted event for a '.rem' path that is not in the active list
\* is a no-op: file_deleted raises no error, emits no 'removed', and leaves
\* the active list as it was.
C14_DeletedUnknownIsNoOp ==
  [][ (/\ out'.cmd = "file_deleted"
       /\ events # <<>>
       /\ Head(events)[2] \notin ActivePaths(reminders)) =>
        /\ out'.err = ""
        /\ out'.signals = <<>>
        /\ reminders' = reminders
        /\ app' = "running" ]_vars

\* C15 as stated: after the scan and after each handled event the paths of
\* the active list are the '.rem' files the directory holds at that point.
C15_ActiveMatchesDirectory ==
  (app = "running" /\ out.cmd \in {"scan", "file_created", "file_deleted"}) =>
     ActivePaths(reminders) = RemFiles(dir)

\* C15, amended: while the display process runs and no signal of the
\* watcher is waiting to be handled, the paths of the active list are the
\* '.rem' files of the directory; changes made between the start of the
\* watcher and the scan included.
C15_ActiveMatchesDirectoryWhenIdle ==
  (app = "running" /\ events = <<>>) => ActivePaths(reminders) = RemFiles(dir)

\* both files are active after the last pending Created, which found its
\* path active already, was handled
C15_Witness ==
  /\ app = "running"
  /\ events = <<>>
  /\ out.cmd = "file_created"
  /\ out.signals = <<"removed", "appeared">>
  /\ ActivePaths(reminders) = {F_a, F_b}
  /\ RemFiles(dir) = {F_a, F_b}

\* C16: the active list never holds two records with the same path.  A
\* Created event for an active path whose file can be read emits one
\* 'removed' and one 'appeared' and leaves exactly one record for the path,
\* holding the text the file has now; a Deleted event for an active path
\* leaves no record for it.
C16_OneRecordPerPath ==
  [][ /\ \A i, j \in 1..Len(reminders') :
           reminders'[i].path = reminders'[j].path => i = j
      /\ (out'.cmd = "file_created" /\ events # <<>> /\ out'.err = ""
          /\ Head(events)[2] \in ActivePaths(reminders)) =>
            /\ out'.signals = <<"removed", "appeared">>
            /\ Len(reminders') = Len(reminders)
            /\ \E i \in 1..Len(reminders') :
                  reminders'[i] = [path |-> Head(events)[2],
                                   text |-> get_reminder(Head(events)[2], dir)]
      /\ (out'.cmd = "file_deleted" /\ events # <<>>
          /\ Head(events)[2] \in ActivePaths(reminders)) =>
            /\ out'.signals = <<"removed">>
            /\ Head(events)[2] \notin ActivePaths(reminders') ]_vars

\* a Created event for a.rem, which was active, replaced its record by one
\* freshly read
C16_Witness ==
  /\ out.cmd = "file_created"
  /\ out.paths = <<F_a>>
  /\ out.signals = <<"removed", "appeared">>
  /\ reminders = << [path |-> F_a, text |-> T_under] >>
  /\ app = "running"

\* C17: a Created event for a '.rem' file that is gone when the handler
\* reads it does not stop the display process and inserts no record for
\* the path.
C17_UnreadableCreatedSurvives ==
  [][ (/\ out'.cmd = "file_created"
       /\ events # <<>>
       /\ ~exists(Head(events)[2], dir)) =>
        /\ app' = "running"
        /\ Head(events)[2] \notin ActivePaths(reminders') ]_vars

\* C18: when the unsuffixed name of a text and every name formed with a
\* 3-digit counter (000 to 999) are taken, the derivation returns no name
\* and signals SlugExhausted.
C18_ExhaustedSignalsFailure ==
  (/\ out.cmd = "derive"
   /\ exists(Shortened(out.text) \o EXTENSION, dir)
   /\ \A k \in 0..(10^WIDTH - 1) : exists(Numbered(Shortened(out.text), k), dir)) =>
     /\ out.err = "SlugExhausted"
     /\ out.paths = <<>>

====
